---- MODULE Spec2Model ----
(***************************************************************************)
(* Model of scripts.js: the function applyDarkTheme (lines 3-6), its call  *)
(* at script load (line 9) and the disabled registration of a              *)
(* prefers-color-scheme change listener (line 12).                         *)
(*                                                                         *)
(* The class attribute of document.body is a sequence of tokens, possibly  *)
(* with repetitions; classList.add / classList.remove work on the ordered  *)
(* token set parsed from it and write the serialised set back.             *)
(***************************************************************************)
EXTENDS Naturals, Sequences, FiniteSets

VARIABLES
    root,         \* what document.body.classList evaluates to: "ok", "noBody", "noClassList"
    classAttr,    \* the class attribute of document.body, a sequence of tokens
    pc,           \* position of the running code: "l9", "l4", "l5", "l12", "idle", "fault"
    caller,       \* who made the current invocation: "load" (line 9) or "later"
    listeners,    \* handlers registered for the media query's "change" event
    prefersDark,  \* current value of the (prefers-color-scheme: dark) media query
    events,       \* number of change events the host has dispatched
    invocations,  \* number of invocations of applyDarkTheme so far
    pre,          \* class attribute at the start of the latest invocation
    post          \* marker sets at the end of each completed invocation

vars == <<root, classAttr, pc, caller, listeners, prefersDark, events,
          invocations, pre, post>>

----------------------------------------------------------------------------
(* Bounds *)

MaxLen == 3
MaxEvents == 2
MaxInvocations == 3

----------------------------------------------------------------------------
(* Tokens *)

DarkTheme == "dark-theme"
LightTheme == "light-theme"
ThemeMarkers == {DarkTheme, LightTheme}
Tokens == {DarkTheme, LightTheme, "menu-open", "compact"}
Roots == {"ok", "noBody", "noClassList"}

AttrsOfLen(n) == [1..n -> Tokens]
Attrs == UNION {AttrsOfLen(n) : n \in 0..MaxLen}

Markers(attr) == {attr[i] : i \in DOMAIN attr}
Occurrences(attr, tok) == Cardinality({i \in DOMAIN attr : attr[i] = tok})

----------------------------------------------------------------------------
(* DOMTokenList, as used through document.body.classList *)

RECURSIVE TokenSet(_)
TokenSet(attr) ==
    IF attr = <<>> THEN <<>>
    ELSE LET front == TokenSet(SubSeq(attr, 1, Len(attr) - 1))
             last  == attr[Len(attr)]
         IN  IF last \in Markers(front) THEN front ELSE Append(front, last)

ClassListAdd(attr, tok) ==
    LET ts == TokenSet(attr)
    IN  IF tok \in Markers(ts) THEN ts ELSE Append(ts, tok)

ClassListRemove(attr, tok) ==
    SelectSeq(TokenSet(attr), LAMBDA t : t # tok)

ClassListToggle(attr, tok) ==
    IF tok \in Markers(attr) THEN ClassListRemove(attr, tok)
    ELSE ClassListAdd(attr, tok)

----------------------------------------------------------------------------
(* The two statements of applyDarkTheme *)

AddDarkToggle(attr) == ClassListToggle(attr, DarkTheme)
AddDarkOverwrite(attr) == <<DarkTheme>>
AddDarkSwapped(attr) == ClassListRemove(attr, LightTheme)
AddDark(attr) == ClassListAdd(attr, DarkTheme)

RemoveLightTypo(attr) == ClassListRemove(attr, "light")
RemoveLightToggle(attr) == ClassListToggle(attr, LightTheme)
RemoveLight(attr) == ClassListRemove(attr, LightTheme)

(* Places inside applyDarkTheme where it yields to the event loop: the     *)
(* function is not async and contains no await or yield.                   *)
SuspensionPointsAwait == {"l5"}
SuspensionPoints == {}

(* Handlers line 12 registers for the change event: the line is a comment. *)
Line12ListenersEnabled == {"applyDarkTheme"}
Line12Listeners == {}

HostIdle == pc \in ({"idle", "fault"} \cup SuspensionPoints)

----------------------------------------------------------------------------
Init ==
    /\ root \in Roots
    /\ classAttr \in Attrs
    /\ pc = "l9"
    /\ caller = "load"
    /\ listeners = {}
    /\ prefersDark \in BOOLEAN
    /\ events = 0
    /\ invocations = 0
    /\ pre = classAttr
    /\ post = <<>>

(* Entering applyDarkTheme. *)
Invoke(who) ==
    /\ pc' = "l4"
    /\ caller' = who
    /\ invocations' = invocations + 1
    /\ pre' = classAttr

(* Line 9: applyDarkTheme(); *)
CallOnLoad ==
    /\ pc = "l9"
    /\ Invoke("load")
    /\ UNCHANGED <<root, classAttr, listeners, prefersDark, events, post>>

(* A TypeError raised in line 4 with no handler on the stack. *)
ThrowCaught ==
    /\ pc' = IF caller = "load" THEN "l12" ELSE "idle"
    /\ UNCHANGED <<root, classAttr, caller, listeners, prefersDark, events,
                   invocations, pre, post>>

Throw ==
    /\ pc' = "fault"
    /\ UNCHANGED <<root, classAttr, caller, listeners, prefersDark, events,
                   invocations, pre, post>>

(* Line 4: document.body.classList.add("dark-theme"); *)
Line4 ==
    /\ pc = "l4"
    /\ IF root # "ok"
       THEN Throw
       ELSE /\ classAttr' = AddDark(classAttr)
            /\ pc' = "l5"
            /\ UNCHANGED <<root, caller, listeners, prefersDark, events,
                           invocations, pre, post>>

(* Line 5: document.body.classList.remove("light-theme"); and the return. *)
Line5 ==
    /\ pc = "l5"
    /\ classAttr' = RemoveLight(classAttr)
    /\ post' = Append(post, Markers(classAttr'))
    /\ pc' = IF caller = "load" THEN "l12" ELSE "idle"
    /\ UNCHANGED <<root, caller, listeners, prefersDark, events,
                   invocations, pre>>

(* Lines 11-14: the rest of the script after the call returns. *)
Line12 ==
    /\ pc = "l12"
    /\ listeners' = listeners \cup Line12Listeners
    /\ pc' = "idle"
    /\ UNCHANGED <<root, classAttr, caller, prefersDark, events,
                   invocations, pre, post>>

(* The host dispatches a change event of the prefers-color-scheme query. *)
DispatchChange ==
    /\ HostIdle
    /\ events < MaxEvents
    /\ events' = events + 1
    /\ prefersDark' = ~prefersDark
    /\ IF "applyDarkTheme" \in listeners /\ pc \in {"idle", "fault"}
       THEN /\ Invoke("later")
            /\ UNCHANGED <<root, classAttr, listeners, post>>
       ELSE UNCHANGED <<root, classAttr, pc, caller, listeners,
                        invocations, pre, post>>

Next ==
    \/ CallOnLoad
    \/ Line4
    \/ Line5
    \/ Line12
    \/ DispatchChange

Spec == Init /\ [][Next]_vars

(* A caller that invokes applyDarkTheme again after it has completed. *)
InvokeAgain ==
    /\ pc = "idle"
    /\ invocations < MaxInvocations
    /\ Invoke("later")
    /\ UNCHANGED <<root, classAttr, listeners, prefersDark, events, post>>

NextRepeat ==
    \/ CallOnLoad
    \/ Line4
    \/ Line5
    \/ Line12
    \/ DispatchChange
    \/ InvokeAgain

SpecRepeat == Init /\ [][NextRepeat]_vars

----------------------------------------------------------------------------
(* Vocabulary of the properties *)

Current == Markers(classAttr)
Before == Markers(pre)
Completed == pc \in {"l12", "idle"}
TypeOK ==
    /\ root \in Roots
    /\ pc \in {"l9", "l4", "l5", "l12", "idle", "fault"}
    /\ caller \in {"load", "later"}
    /\ Current \subseteq Tokens
    /\ events \in 0..MaxEvents
    /\ prefersDark \in BOOLEAN

----------------------------------------------------------------------------
(* C1: whatever the class attribute was before, once applyDarkTheme has    *)
(* completed the marker set contains "dark-theme".                         *)
C1_DarkPresentAfter == Completed => DarkTheme \in Current

C1_Witness ==
    /\ Completed
    /\ DarkTheme \in Before
    /\ LightTheme \in Before
    /\ DarkTheme \in Current

(* C2: once applyDarkTheme has completed the marker set does not contain   *)
(* "light-theme", also when the class attribute held it several times.     *)
C2_LightAbsentAfter == Completed => Occurrences(classAttr, LightTheme) = 0

C2_Witness ==
    /\ Completed
    /\ Occurrences(pre, LightTheme) >= 2
    /\ LightTheme \notin Current

(* C3: idempotence: every further completed invocation leaves the marker   *)
(* set that the first completed invocation produced.                       *)
C3_Idempotent == \A i \in DOMAIN post : post[i] = post[1]

C3_Witness ==
    /\ Len(post) >= 2
    /\ LightTheme \in Markers(pre) \/ post[1] # {DarkTheme}
    /\ post[2] = post[1]

(* C4: the marker set after one invocation is the set before it, minus     *)
(* "light-theme", plus "dark-theme"; from {"light-theme"}, {} and          *)
(* {"dark-theme", "light-theme"} the result is exactly {"dark-theme"}.     *)
C4_ResultSet ==
    Completed =>
        /\ Current = (Before \ {LightTheme}) \cup {DarkTheme}
        /\ Before \in {{LightTheme}, {}, {DarkTheme, LightTheme}}
               => Current = {DarkTheme}

C4_Witness ==
    /\ Completed
    /\ Before = {DarkTheme, LightTheme}
    /\ Current = {DarkTheme}

(* C5: applyDarkTheme is invoked exactly once, by the call at load; no     *)
(* listener is ever registered, so change events invoke nothing.           *)
C5_InvokedOnceAtLoad ==
    /\ invocations = IF pc = "l9" THEN 0 ELSE 1
    /\ caller = "load"
    /\ listeners = {}

C5_Witness ==
    /\ pc = "idle"
    /\ events >= 2
    /\ invocations = 1

(* C6: no step adds "light-theme" or removes "dark-theme", and every       *)
(* state from the completion of the load-time invocation onward has        *)
(* "dark-theme" and lacks "light-theme".                                   *)
C6_StepKeepsDark ==
    /\ LightTheme \in Markers(classAttr') => LightTheme \in Current
    /\ DarkTheme \in Current => DarkTheme \in Markers(classAttr')
    /\ Completed => pc' \in {"l12", "idle"}
    /\ pc' \in {"l12", "idle"} =>
           /\ DarkTheme \in Markers(classAttr')
           /\ LightTheme \notin Markers(classAttr')

C6_NoWayBackToLight == [][C6_StepKeepsDark]_vars

C6_Witness ==
    /\ pc = "idle"
    /\ events >= 1
    /\ LightTheme \in Before
    /\ DarkTheme \notin Before
    /\ Current \cap ThemeMarkers = {DarkTheme}

(* C7: with document.body or its classList unavailable the invocation      *)
(* ends in an uncaught fault: it never completes, is not retried, and the  *)
(* class attribute is left as it was.                                      *)
C7_UnhandledFault ==
    root # "ok" =>
        /\ pc \in {"l9", "l4", "fault"}
        /\ classAttr = pre
        /\ post = <<>>
        /\ invocations <= 1

C7_Witness ==
    /\ root = "noBody"
    /\ pc = "fault"
    /\ events >= 1
    /\ LightTheme \in Current
    /\ DarkTheme \notin Current

(* C8: between the add and the remove nothing but the remove runs: the     *)
(* only step out of the intermediate state is line 5, and the host         *)
(* dispatches no event there.                                              *)
C8_StepFromIntermediate ==
    pc = "l5" =>
        /\ pc' \in {"l12", "idle"}
        /\ events' = events
        /\ prefersDark' = prefersDark
        /\ invocations' = invocations

C8_RunToCompletion == [][C8_StepFromIntermediate]_vars

C8_Witness ==
    /\ pc = "l5"
    /\ DarkTheme \in Current
    /\ LightTheme \in Current
    /\ DarkTheme \notin Before

(* C9: a marker other than "dark-theme" and "light-theme" is in the marker *)
(* set during and after an invocation iff it was in it before.             *)
C9_OtherMarkersKept ==
    \A m \in Tokens \ ThemeMarkers : (m \in Current) <=> (m \in Before)

C9_Witness ==
    /\ Completed
    /\ "menu-open" \in Current
    /\ "compact" \notin Current
    /\ LightTheme \in Before

(* C10: an invocation that starts with one of the two theme markers never  *)
(* passes through a state with neither, and from the add step onward       *)
(* "dark-theme" is present.                                                *)
C10_NeverThemeless ==
    /\ (pc # "l9" /\ Before \cap ThemeMarkers # {})
           => Current \cap ThemeMarkers # {}
    /\ pc \in {"l5", "l12", "idle"} => DarkTheme \in Current

C10_Witness ==
    /\ pc = "l5"
    /\ Before \cap ThemeMarkers = {LightTheme}
    /\ Current \cap ThemeMarkers = {DarkTheme, LightTheme}

====
